---- MODULE Spec2Model ----
(***************************************************************************)
(* Model of src/app/events/[id]/page.tsx: the event detail page.           *)
(*                                                                         *)
(* Spec        one request served by EventDetailPage (id resolution,       *)
(*             getEventData, the content lookup, notFound / render).       *)
(* UrlSpec     buildImageUrl applied to every bounded image reference.     *)
(* DetailsSpec EventDetails applied to every bounded event record.         *)
(* SpeakersSpec SpeakersSection applied to every bounded event record.     *)
(*                                                                         *)
(* JavaScript values: an optional value is a sequence of length 0          *)
(* (undefined / null) or 1 (the value).  Ids, names and phone numbers are  *)
(* strings; urls are sequences of one-character strings, because           *)
(* startsWith and the template `https:${url}` look at their characters.    *)
(***************************************************************************)
EXTENDS Integers, Sequences, FiniteSets, TLC

VARIABLES pc, pathId, queryId, actualEventId, calls, lookupArg, lookupResult,
          event, logged, shown, view, imageField, imageUrl, dataArg

vars == <<pc, pathId, queryId, actualEventId, calls, lookupArg, lookupResult,
          event, logged, shown, view, imageField, imageUrl, dataArg>>

\* ----- bounds ------------------------------------------------------------
MaxUrlLen == 3
MaxQueryLen == 2

\* ----- optional values -----------------------------------------------------
None == <<>>
Some(x) == <<x>>

\* JavaScript truthiness of string | undefined
TruthyString(o) == o # None /\ o[1] # ""

\* JavaScript truthiness of a url (string | undefined) held as characters
TruthyUrl(o) == o # None /\ Len(o[1]) > 0

\* String.prototype.startsWith
StartsWith(s, prefix) ==
    /\ Len(s) >= Len(prefix)
    /\ SubSeq(s, 1, Len(prefix)) = prefix

HttpsPrefix == <<"h", "t", "t", "p", "s", ":">>

\* an image reference { fields: { file: { url } } }
ImageRef(url) == Some([fields |-> Some([file |-> Some([url |-> Some(url)])])])

\* ----- the built-in record ---------------------------------------------------
\* fullDescription is a long markdown text that the page only tests for
\* truthiness and hands to MarkdownRenderer; its heading stands for it here.
SentinelId == "imo-economic-summit-2025"

HARDCODED_EVENT_DATA ==
    [sys |-> [id |-> "imo-economic-summit-2025"],
     fields |->
       [eventName |-> Some("Imo Economic Summit 2025"),
        briefDescription |-> Some("A powerful gathering of leaders, investors, and visionaries ready to unlock new opportunities for growth and innovation."),
        fullDescription |-> Some("## About the Summit ..."),
        eventDate |-> Some("2025-12-04T09:00:00.000Z"),
        location |-> Some("Owerri, Imo State"),
        contactPhoneNumber |-> Some("+234 803 610 1044"),
        bannerImage |-> ImageRef(<<"/", "e", "v", "e", "n", "t", "-", "i", "m", "o",
                                   ".", "j", "p", "e", "g">>),
        ministry |-> Some([fields |-> Some([ministryName |->
                              Some("Ministry of Lands, Survey and Planning")])]),
        firstSpeaker |-> None,
        firstSpeakerPicture |-> None,
        secondSpeaker |-> None,
        secondSpeakerPicture |-> None]]

\* a record with the given optional fields, the rest as in a plain event
MkEvent(id, phone, location, ministry, banner, s1, p1, s2, p2) ==
    [sys |-> [id |-> id],
     fields |->
       [eventName |-> Some("Town Hall"),
        briefDescription |-> Some("brief"),
        fullDescription |-> None,
        eventDate |-> Some("2025-01-01T00:00:00.000Z"),
        location |-> location,
        contactPhoneNumber |-> phone,
        bannerImage |-> banner,
        ministry |-> ministry,
        firstSpeaker |-> s1,
        firstSpeakerPicture |-> p1,
        secondSpeaker |-> s2,
        secondSpeakerPicture |-> p2]]

\* ----- buildImageUrl ---------------------------------------------------------
\* imageField?.fields?.file?.url
FileUrl(f) ==
    IF f = None THEN None
    ELSE IF f[1].fields = None THEN None
    ELSE IF f[1].fields[1].file = None THEN None
    ELSE f[1].fields[1].file[1].url

buildImageUrl_everySlashVerbatim(f) ==
    LET url == FileUrl(f)
    IN  IF TruthyUrl(url) /\ StartsWith(url[1], <<"/">>)
        THEN Some(url[1])
        ELSE IF TruthyUrl(url) THEN Some(HttpsPrefix \o url[1]) ELSE None

buildImageUrl_neverPrefixes(f) ==
    LET url == FileUrl(f)
    IN  IF TruthyUrl(url) THEN Some(url[1]) ELSE None

buildImageUrl(f) ==
    LET url == FileUrl(f)
    IN  IF TruthyUrl(url) /\ StartsWith(url[1], <<"/">>)
                          /\ ~StartsWith(url[1], <<"/", "/">>)
        THEN Some(url[1])
        ELSE IF TruthyUrl(url) THEN Some(HttpsPrefix \o url[1]) ELSE None

\* ----- EventDetails ----------------------------------------------------------
\* getRelativeTime is an opaque formatter of the date
getRelativeTime(d) == <<"getRelativeTime", d>>

\* event.fields.ministry?.fields?.ministryName || 'Ministry'
OrganizerValue(m) ==
    IF m = None THEN "Ministry"
    ELSE IF m[1].fields = None THEN "Ministry"
    ELSE IF TruthyString(m[1].fields[1].ministryName)
         THEN m[1].fields[1].ministryName[1]
         ELSE "Ministry"

EventDetails_organizerByName(e) ==
    SelectSeq(
      << [label |-> "DATE:", value |-> Some(getRelativeTime(e.fields.eventDate)),
          show |-> TRUE],
         [label |-> "PHONE:", value |-> e.fields.contactPhoneNumber,
          show |-> TruthyString(e.fields.contactPhoneNumber)],
         [label |-> "LOCATION:", value |-> e.fields.location,
          show |-> TruthyString(e.fields.location)],
         [label |-> "ORGANIZER:", value |-> Some(OrganizerValue(e.fields.ministry)),
          show |-> /\ e.fields.ministry # None
                   /\ e.fields.ministry[1].fields # None
                   /\ TruthyString(e.fields.ministry[1].fields[1].ministryName)] >>,
      LAMBDA detail : detail.show)

EventDetails(e) ==
    SelectSeq(
      << [label |-> "DATE:", value |-> Some(getRelativeTime(e.fields.eventDate)),
          show |-> TRUE],
         [label |-> "PHONE:", value |-> e.fields.contactPhoneNumber,
          show |-> TruthyString(e.fields.contactPhoneNumber)],
         [label |-> "LOCATION:", value |-> e.fields.location,
          show |-> TruthyString(e.fields.location)],
         [label |-> "ORGANIZER:", value |-> Some(OrganizerValue(e.fields.ministry)),
          show |-> e.fields.ministry # None] >>,
      LAMBDA detail : detail.show)

\* ----- SpeakersSection -------------------------------------------------------
SpeakersSection_showByPicture(e) ==
    LET speakers ==
          SelectSeq(
            << [name |-> e.fields.firstSpeaker,
                imageUrl |-> buildImageUrl(e.fields.firstSpeakerPicture),
                show |-> TruthyString(e.fields.firstSpeaker)
                         \/ buildImageUrl(e.fields.firstSpeakerPicture) # None],
               [name |-> e.fields.secondSpeaker,
                imageUrl |-> buildImageUrl(e.fields.secondSpeakerPicture),
                show |-> TruthyString(e.fields.secondSpeaker)
                         \/ buildImageUrl(e.fields.secondSpeakerPicture) # None] >>,
            LAMBDA speaker : speaker.show)
    IN  IF Len(speakers) = 0 THEN None ELSE Some(speakers)

\* null (None) when no speaker is shown, otherwise the list of cards
SpeakersSection(e) ==
    LET speakers ==
          SelectSeq(
            << [name |-> e.fields.firstSpeaker,
                imageUrl |-> buildImageUrl(e.fields.firstSpeakerPicture),
                show |-> TruthyString(e.fields.firstSpeaker)],
               [name |-> e.fields.secondSpeaker,
                imageUrl |-> buildImageUrl(e.fields.secondSpeakerPicture),
                show |-> TruthyString(e.fields.secondSpeaker)] >>,
            LAMBDA speaker : speaker.show)
    IN  IF Len(speakers) = 0 THEN None ELSE Some(speakers)

\* ----- EventContent ----------------------------------------------------------
HeroSectionPng == <<"/", "h", "e", "r", "o", "_", "s", "e", "c", "t", "i", "o", "n",
                    ".", "p", "n", "g">>

EventContent(e) ==
    LET built == buildImageUrl(e.fields.bannerImage)
        bannerImageUrl == IF TruthyUrl(built) THEN built[1] ELSE HeroSectionPng
    IN  [event |-> e,
         bannerImageUrl |-> bannerImageUrl,
         eventImage |-> (Len(bannerImageUrl) > 0 /\ bannerImageUrl # HeroSectionPng),
         briefDescription |-> TruthyString(e.fields.briefDescription),
         fullDescription |-> TruthyString(e.fields.fullDescription),
         details |-> EventDetails(e),
         speakers |-> SpeakersSection(e)]

\* ----- inputs of a request ---------------------------------------------------
Ids == {"", SentinelId, "evt-1"}

SeqsUpTo(S, n) == UNION {[1..k -> S] : k \in 0..n}

\* params.id
PathIds == {None} \cup {Some(s) : s \in Ids}

\* searchParams.id : string | string[] | undefined
QueryIds ==
    {[kind |-> "undefined", val |-> <<>>]}
      \cup {[kind |-> "string", val |-> <<s>>] : s \in Ids}
      \cup {[kind |-> "array", val |-> a] : a \in SeqsUpTo(Ids, MaxQueryLen)}

\* records the content service can hold
ContentfulEvents ==
    {MkEvent("evt-1", phone, Some("Owerri"), None, banner, s1, None, None, None) :
        phone \in {None, Some("+234 803 610 1044")},
        banner \in {None, ImageRef(<<"/", "/", "c">>)},
        s1 \in {None, Some("Ada")}}

NoLookup == [kind |-> "none", val |-> None]

\* ----- EventDetailPage -------------------------------------------------------
eventIdFromSearch(q) ==
    IF q.kind = "string" THEN Some(q.val[1])
    ELSE IF q.kind = "array"
         THEN (IF Len(q.val) > 0 THEN Some(q.val[1]) ELSE None)
         ELSE None

ActualEventId_pathFirst(p, q) ==
    IF TruthyString(p) THEN p ELSE eventIdFromSearch(q)

\* eventIdFromSearch || eventIdFromParams
ActualEventId(p, q) ==
    IF TruthyString(eventIdFromSearch(q)) THEN eventIdFromSearch(q) ELSE p

\* <Suspense fallback={<LoadingState />}> shows the fallback only while its
\* child suspends; EventContent is a synchronous component.
EventContentSuspends == FALSE

Suspense(fallback, children) ==
    IF EventContentSuspends THEN fallback ELSE children

Init ==
    /\ pc = "start"
    /\ pathId \in PathIds
    /\ queryId \in QueryIds
    /\ actualEventId = None
    /\ calls = 0
    /\ lookupArg = None
    /\ lookupResult = NoLookup
    /\ event = None
    /\ logged = FALSE
    /\ shown = "nothing"
    /\ view = None
    /\ imageField = None
    /\ imageUrl = None
    /\ dataArg = None

EventDetailPage_missingId_proceeds ==
    /\ pc = "start"
    /\ ~TruthyString(ActualEventId(pathId, queryId))
    /\ actualEventId' = ActualEventId(pathId, queryId)
    /\ dataArg' = ActualEventId(pathId, queryId)
    /\ calls' = calls + 1
    /\ lookupArg' = ActualEventId(pathId, queryId)
    /\ lookupResult' = [kind |-> "pending", val |-> None]
    /\ pc' = "fetching"
    /\ UNCHANGED <<pathId, queryId, event, logged, shown, view, imageField, imageUrl>>

\* if (!actualEventId) notFound();
EventDetailPage_missingId ==
    /\ pc = "start"
    /\ ~TruthyString(ActualEventId(pathId, queryId))
    /\ actualEventId' = ActualEventId(pathId, queryId)
    /\ pc' = "notFound"
    /\ shown' = "notFound"
    /\ UNCHANGED <<pathId, queryId, calls, lookupArg, lookupResult, event, logged,
                   view, imageField, imageUrl, dataArg>>

getEventData_lookup_alsoForHardcoded ==
    /\ pc = "start"
    /\ TruthyString(ActualEventId(pathId, queryId))
    /\ actualEventId' = ActualEventId(pathId, queryId)
    /\ dataArg' = ActualEventId(pathId, queryId)
    /\ calls' = calls + 1
    /\ lookupArg' = ActualEventId(pathId, queryId)
    /\ lookupResult' = [kind |-> "pending", val |-> None]
    /\ pc' = "fetching"
    /\ UNCHANGED <<pathId, queryId, event, logged, shown, view, imageField, imageUrl>>

\* getEventData(actualEventId) with the hardcoded id: no external call
getEventData_hardcoded ==
    /\ pc = "start"
    /\ TruthyString(ActualEventId(pathId, queryId))
    /\ ActualEventId(pathId, queryId)[1] = SentinelId
    /\ actualEventId' = ActualEventId(pathId, queryId)
    /\ dataArg' = ActualEventId(pathId, queryId)
    /\ event' = Some(HARDCODED_EVENT_DATA)
    /\ pc' = "gotEvent"
    /\ UNCHANGED <<pathId, queryId, calls, lookupArg, lookupResult, logged, shown,
                   view, imageField, imageUrl>>

\* getEventData(actualEventId) otherwise: contentfulService.getEventById(id)
\* is called and awaited
getEventData_lookup ==
    /\ pc = "start"
    /\ TruthyString(ActualEventId(pathId, queryId))
    /\ ActualEventId(pathId, queryId)[1] # SentinelId
    /\ actualEventId' = ActualEventId(pathId, queryId)
    /\ dataArg' = ActualEventId(pathId, queryId)
    /\ calls' = calls + 1
    /\ lookupArg' = ActualEventId(pathId, queryId)
    /\ lookupResult' = [kind |-> "pending", val |-> None]
    /\ pc' = "fetching"
    /\ UNCHANGED <<pathId, queryId, event, logged, shown, view, imageField, imageUrl>>

\* the lookup resolves with a record or with no record; getEventData returns it
getEventById_returns ==
    /\ pc = "fetching"
    /\ \E r \in {None} \cup {Some(e) : e \in ContentfulEvents} :
          /\ lookupResult' = [kind |-> IF r = None THEN "null" ELSE "record",
                              val |-> r]
          /\ event' = r
    /\ pc' = "gotEvent"
    /\ UNCHANGED <<pathId, queryId, actualEventId, calls, lookupArg, logged, shown,
                   view, imageField, imageUrl, dataArg>>

getEventData_catch_rethrows ==
    /\ pc = "fetching"
    /\ lookupResult' = [kind |-> "threw", val |-> None]
    /\ pc' = "error"
    /\ shown' = "error"
    /\ UNCHANGED <<pathId, queryId, actualEventId, calls, lookupArg, event, logged,
                   view, imageField, imageUrl, dataArg>>

\* the lookup rejects: catch, console.error, return null
getEventData_catch ==
    /\ pc = "fetching"
    /\ lookupResult' = [kind |-> "threw", val |-> None]
    /\ logged' = TRUE
    /\ event' = None
    /\ pc' = "gotEvent"
    /\ UNCHANGED <<pathId, queryId, actualEventId, calls, lookupArg, shown,
                   view, imageField, imageUrl, dataArg>>

\* if (!event) notFound();
EventDetailPage_notFound ==
    /\ pc = "gotEvent"
    /\ event = None
    /\ pc' = "notFound"
    /\ shown' = "notFound"
    /\ UNCHANGED <<pathId, queryId, actualEventId, calls, lookupArg, lookupResult,
                   event, logged, view, imageField, imageUrl, dataArg>>

EventDetailPage_render_refetches ==
    /\ pc = "gotEvent"
    /\ event # None
    /\ calls' = calls + 1
    /\ view' = Some(EventContent(event[1]))
    /\ shown' = Suspense("LoadingState", "EventContent")
    /\ pc' = "rendered"
    /\ UNCHANGED <<pathId, queryId, actualEventId, lookupArg, lookupResult,
                   event, logged, imageField, imageUrl, dataArg>>

\* return <Suspense fallback={<LoadingState />}><EventContent event={event} />
EventDetailPage_render ==
    /\ pc = "gotEvent"
    /\ event # None
    /\ view' = Some(EventContent(event[1]))
    /\ shown' = Suspense("LoadingState", "EventContent")
    /\ pc' = "rendered"
    /\ UNCHANGED <<pathId, queryId, actualEventId, calls, lookupArg, lookupResult,
                   event, logged, imageField, imageUrl, dataArg>>

Next ==
    \/ EventDetailPage_missingId
    \/ getEventData_hardcoded
    \/ getEventData_lookup
    \/ getEventById_returns
    \/ getEventData_catch
    \/ EventDetailPage_notFound
    \/ EventDetailPage_render

Spec == Init /\ [][Next]_vars

\* ----- buildImageUrl on every bounded image reference -----------------------
UrlChars == {"/", "c", "d", ":"}

ImageFields ==
    {None,
     Some([fields |-> None]),
     Some([fields |-> Some([file |-> None])]),
     Some([fields |-> Some([file |-> Some([url |-> None])])])}
      \cup {ImageRef(u) : u \in SeqsUpTo(UrlChars, MaxUrlLen)}

UrlInit ==
    /\ pc = "buildImageUrl"
    /\ imageField \in ImageFields
    /\ imageUrl = None
    /\ pathId = None
    /\ queryId = [kind |-> "undefined", val |-> <<>>]
    /\ actualEventId = None
    /\ calls = 0
    /\ lookupArg = None
    /\ lookupResult = NoLookup
    /\ event = None
    /\ logged = FALSE
    /\ shown = "nothing"
    /\ view = None
    /\ dataArg = None

buildImageUrl_call ==
    /\ pc = "buildImageUrl"
    /\ imageUrl' = buildImageUrl(imageField)
    /\ pc' = "returned"
    /\ UNCHANGED <<pathId, queryId, actualEventId, calls, lookupArg, lookupResult,
                   event, logged, shown, view, imageField, dataArg>>

UrlNext == buildImageUrl_call

UrlSpec == UrlInit /\ [][UrlNext]_vars

\* ----- EventDetails on every bounded event record ----------------------------
Ministries ==
    {None,
     Some([fields |-> None]),
     Some([fields |-> Some([ministryName |-> None])]),
     Some([fields |-> Some([ministryName |-> Some("")])]),
     Some([fields |-> Some([ministryName |-> Some("Ministry of Works")])])}

DetailEvents ==
    {MkEvent("evt-1", phone, location, ministry, None, None, None, None, None) :
        phone \in {None, Some(""), Some("+234 803 610 1044"), Some("112")},
        location \in {None, Some(""), Some("Owerri, Imo State")},
        ministry \in Ministries}

DetailsInit ==
    /\ pc = "EventDetails"
    /\ event \in {Some(e) : e \in DetailEvents}
    /\ view = None
    /\ imageField = None
    /\ imageUrl = None
    /\ pathId = None
    /\ queryId = [kind |-> "undefined", val |-> <<>>]
    /\ actualEventId = None
    /\ calls = 0
    /\ lookupArg = None
    /\ lookupResult = NoLookup
    /\ logged = FALSE
    /\ shown = "nothing"
    /\ dataArg = None

EventDetails_render ==
    /\ pc = "EventDetails"
    /\ view' = Some(EventDetails(event[1]))
    /\ pc' = "done"
    /\ UNCHANGED <<pathId, queryId, actualEventId, calls, lookupArg, lookupResult,
                   event, logged, shown, imageField, imageUrl, dataArg>>

DetailsNext == EventDetails_render

DetailsSpec == DetailsInit /\ [][DetailsNext]_vars

\* ----- SpeakersSection on every bounded event record -------------------------
SpeakerPictures == {None, ImageRef(<<"/", "c">>), ImageRef(<<"/", "/", "c">>)}

SpeakerEvents ==
    {MkEvent("evt-1", None, None, None, None, s1, p1, s2, p2) :
        s1 \in {None, Some(""), Some("Ada")},
        p1 \in SpeakerPictures,
        s2 \in {None, Some(""), Some("Bob")},
        p2 \in SpeakerPictures}

SpeakersInit ==
    /\ pc = "SpeakersSection"
    /\ event \in {Some(e) : e \in SpeakerEvents}
    /\ view = None
    /\ imageField = None
    /\ imageUrl = None
    /\ pathId = None
    /\ queryId = [kind |-> "undefined", val |-> <<>>]
    /\ actualEventId = None
    /\ calls = 0
    /\ lookupArg = None
    /\ lookupResult = NoLookup
    /\ logged = FALSE
    /\ shown = "nothing"
    /\ dataArg = None

SpeakersSection_render ==
    /\ pc = "SpeakersSection"
    /\ view' = SpeakersSection(event[1])
    /\ pc' = "done"
    /\ UNCHANGED <<pathId, queryId, actualEventId, calls, lookupArg, lookupResult,
                   event, logged, shown, imageField, imageUrl, dataArg>>

SpeakersNext == SpeakersSection_render

SpeakersSpec == SpeakersInit /\ [][SpeakersNext]_vars

\* ===== properties ============================================================

\* ----- C1 -------------------------------------------------------------------
\* C1: a request whose resolved id is the sentinel gets HARDCODED_EVENT_DATA
\* from getEventData, and getEventById is never invoked during it.
C1_SentinelYieldsHardcoded ==
    actualEventId = Some(SentinelId) =>
        /\ calls = 0
        /\ lookupArg = None
        /\ lookupResult = NoLookup
        /\ logged = FALSE
        /\ pc \in {"gotEvent", "rendered"}
        /\ event = Some(HARDCODED_EVENT_DATA)
        /\ (pc = "rendered" => view # None /\ view[1].event = HARDCODED_EVENT_DATA)

C1_Witness ==
    /\ pc = "rendered"
    /\ dataArg = Some(SentinelId)
    /\ calls = 0
    /\ view # None
    /\ view[1].event.sys.id = SentinelId

\* ----- C2 -------------------------------------------------------------------
LookupFailed == lookupResult.kind \in {"threw", "null"}

\* C2: for a non-sentinel id, a lookup that throws or yields no record makes
\* getEventData return null (the error is not propagated), the page then
\* takes the not-found outcome, in both cases alike, and no event content is
\* rendered.
C2_FailedLookupIsNotFound ==
    /\ [](LookupFailed =>
            /\ dataArg # Some(SentinelId)
            /\ event = None
            /\ view = None
            /\ shown \in {"nothing", "notFound"}
            /\ pc \in {"gotEvent", "notFound"}
            /\ (pc = "notFound" => shown = "notFound"))
    /\ [][(LookupFailed /\ pc = "gotEvent") =>
            (pc' = "notFound" /\ shown' = "notFound" /\ view' = None)]_vars

C2_Witness ==
    /\ pc = "notFound"
    /\ lookupResult.kind = "threw"
    /\ logged
    /\ event = None
    /\ shown = "notFound"

\* ----- C3 -------------------------------------------------------------------
PathHasNoId == pathId = None \/ pathId = Some("")

QueryHasNoId ==
    \/ queryId.kind = "undefined"
    \/ \A i \in 1..Len(queryId.val) : queryId.val[i] = ""

\* C3: with no id in the path segment and none in the query parameter the page
\* yields not-found and reaches neither the event lookup nor EventContent.
C3_MissingIdIsNotFound ==
    (PathHasNoId /\ QueryHasNoId) =>
        /\ pc \in {"start", "notFound"}
        /\ (pc = "notFound" => shown = "notFound")
        /\ dataArg = None
        /\ calls = 0
        /\ lookupResult = NoLookup
        /\ event = None
        /\ view = None

C3_Witness ==
    /\ pc = "notFound"
    /\ pathId = None
    /\ queryId.kind = "undefined"
    /\ shown = "notFound"
    /\ calls = 0

\* ----- C4 -------------------------------------------------------------------
\* the query supplies an id: a non-empty string, or a list holding one
QuerySuppliesId ==
    /\ queryId.kind \in {"string", "array"}
    /\ \E i \in 1..Len(queryId.val) : queryId.val[i] # ""

\* C4 as stated: whenever the query supplies an id, getEventData is called
\* with the query id (the first element of a list), whatever the path id is;
\* otherwise with the path id.
C4_QueryIdAlwaysWins ==
    pc # "start" =>
        IF QuerySuppliesId
        THEN dataArg = Some(queryId.val[1])
        ELSE (~PathHasNoId => dataArg = pathId)

QueryFirstIsNonEmpty ==
    /\ queryId.kind \in {"string", "array"}
    /\ Len(queryId.val) > 0
    /\ queryId.val[1] # ""

\* C4 amended: getEventData is called with the query id exactly when the
\* query id (the first element of a list) is non-empty, whatever the path id
\* is; otherwise the path id is used, and nothing is looked up when that is
\* missing too.
C4_NonEmptyQueryIdWins ==
    pc # "start" =>
        IF QueryFirstIsNonEmpty
        THEN dataArg = Some(queryId.val[1])
        ELSE IF ~PathHasNoId THEN dataArg = pathId
        ELSE dataArg = None

C4_Witness ==
    /\ pc # "start"
    /\ queryId.kind = "array"
    /\ Len(queryId.val) = 2
    /\ queryId.val[1] = "evt-1"
    /\ pathId = Some(SentinelId)
    /\ dataArg = Some("evt-1")
    /\ lookupArg = Some("evt-1")

\* ----- C7 -------------------------------------------------------------------
\* C7: while the content fetch of a non-sentinel id has been started and has
\* not completed, the page shows LoadingState; event content is shown only
\* after the fetch has completed.
C7_LoadingWhileFetching ==
    /\ (pc = "fetching" /\ lookupResult.kind = "pending") => shown = "LoadingState"
    /\ (shown = "EventContent" /\ calls > 0) => lookupResult.kind = "record"

\* ----- C10 ------------------------------------------------------------------
IdPresentNonSentinel ==
    LET q == IF QueryFirstIsNonEmpty THEN Some(queryId.val[1]) ELSE pathId
    IN  q # None /\ q[1] # "" /\ q[1] # SentinelId

\* C10: getEventById is invoked at most once per request (once for a present
\* non-sentinel id, never for the sentinel or a missing id), EventContent is
\* rendered only after that lookup returned a record, and with that very
\* record.
C10_SingleFetchThenRender ==
    /\ calls <= 1
    /\ (pc # "start" => calls = (IF IdPresentNonSentinel THEN 1 ELSE 0))
    /\ (shown = "EventContent" => pc = "rendered")
    /\ (pc = "rendered" =>
          /\ view # None
          /\ IF calls = 0
             THEN dataArg = Some(SentinelId) /\ view[1].event = HARDCODED_EVENT_DATA
             ELSE /\ lookupResult.kind = "record"
                  /\ lookupResult.val \in {Some(e) : e \in ContentfulEvents}
                  /\ event = lookupResult.val
                  /\ view[1].event = lookupResult.val[1])

C10_Witness ==
    /\ pc = "rendered"
    /\ calls = 1
    /\ lookupResult.kind = "record"
    /\ view # None
    /\ view[1].event = lookupResult.val[1]
    /\ shown = "EventContent"

\* ----- C5 -------------------------------------------------------------------
\* the file url of the reference under test, and the value built from it
GivenUrl == FileUrl(imageField)

Prefixed(u) == Some(<<"h", "t", "t", "p", "s", ":">> \o u)

\* C5 as stated: a url starting with '/' is returned unchanged, any other
\* present url comes back as 'https:' followed by the url, an absent reference
\* or url gives null.
C5_LeadingSlashUnchanged ==
    pc = "returned" =>
        IF GivenUrl = None \/ GivenUrl = Some(<<>>) THEN imageUrl = None
        ELSE IF Head(GivenUrl[1]) = "/" THEN imageUrl = GivenUrl
        ELSE imageUrl = Prefixed(GivenUrl[1])

\* C5 amended: a url starting with '/' but not with '//' is returned
\* unchanged, any other non-empty url comes back as 'https:' followed by the
\* url, an absent reference or an absent or empty url gives null.
C5_SingleSlashUnchanged ==
    pc = "returned" =>
        IF GivenUrl = None \/ GivenUrl = Some(<<>>) THEN imageUrl = None
        ELSE IF /\ Head(GivenUrl[1]) = "/"
                /\ (Len(GivenUrl[1]) = 1 \/ GivenUrl[1][2] # "/")
             THEN imageUrl = GivenUrl
             ELSE imageUrl = Prefixed(GivenUrl[1])

C5_Witness ==
    /\ pc = "returned"
    /\ imageField = ImageRef(<<"/", "c", "d">>)
    /\ imageUrl = Some(<<"/", "c", "d">>)

\* ----- C9 -------------------------------------------------------------------
HostRelative(u) == Len(u) >= 1 /\ u[1] = "/" /\ ~(Len(u) >= 2 /\ u[2] = "/")

ProtocolRelative(u) == Len(u) >= 2 /\ u[1] = "/" /\ u[2] = "/"

\* C9: a host-relative url ('/x') is returned verbatim, a protocol-relative
\* one ('//cdn/x') is not but becomes 'https://cdn/x', every present url that
\* is not host-relative gets the 'https:' prefix, an absent or empty url
\* yields null.
C9_HostVsProtocolRelative ==
    pc = "returned" =>
        /\ \A u \in SeqsUpTo(UrlChars, MaxUrlLen) :
             GivenUrl = Some(u) =>
               /\ HostRelative(u) => imageUrl = Some(u)
               /\ ProtocolRelative(u) =>
                    /\ imageUrl # Some(u)
                    /\ imageUrl = Some(<<"h", "t", "t", "p", "s", ":", "/", "/">>
                                          \o SubSeq(u, 3, Len(u)))
               /\ (u # <<>> /\ ~HostRelative(u)) =>
                    /\ Len(imageUrl[1]) = Len(u) + 6
                    /\ SubSeq(imageUrl[1], 1, 6) = <<"h", "t", "t", "p", "s", ":">>
                    /\ SubSeq(imageUrl[1], 7, Len(u) + 6) = u
               /\ u = <<>> => imageUrl = None
        /\ GivenUrl = None => imageUrl = None

C9_Witness ==
    /\ pc = "returned"
    /\ imageField = ImageRef(<<"/", "/", "c">>)
    /\ imageUrl = Some(<<"h", "t", "t", "p", "s", ":", "/", "/", "c">>)

\* ----- C6 -------------------------------------------------------------------
Labels(rows) == [i \in 1..Len(rows) |-> rows[i].label]

NonEmpty(o) == o # None /\ o # Some("")

MinistryNameTruthy(m) ==
    /\ m # None
    /\ m[1].fields # None
    /\ NonEmpty(m[1].fields[1].ministryName)

RowsWhen(phone, location, organizer) ==
    <<"DATE:">>
      \o (IF phone THEN <<"PHONE:">> ELSE <<>>)
      \o (IF location THEN <<"LOCATION:">> ELSE <<>>)
      \o (IF organizer THEN <<"ORGANIZER:">> ELSE <<>>)

\* C6 as stated: the rows are DATE always, PHONE iff contactPhoneNumber is
\* truthy, LOCATION iff location is truthy, ORGANIZER iff the ministry's name
\* is truthy, in that order.
C6_OrganizerRowIffName ==
    pc = "done" =>
        Labels(view[1]) = RowsWhen(NonEmpty(event[1].fields.contactPhoneNumber),
                                   NonEmpty(event[1].fields.location),
                                   MinistryNameTruthy(event[1].fields.ministry))

\* C6 amended: the rows are DATE always, PHONE iff contactPhoneNumber is
\* truthy, LOCATION iff location is truthy, ORGANIZER iff the ministry
\* reference is present (with the ministry's name, or 'Ministry' when it has
\* none, as its value), in that order.
C6_OrganizerRowIffMinistry ==
    pc = "done" =>
        /\ Labels(view[1]) = RowsWhen(NonEmpty(event[1].fields.contactPhoneNumber),
                                      NonEmpty(event[1].fields.location),
                                      event[1].fields.ministry # None)
        /\ \A i \in 1..Len(view[1]) :
             view[1][i].label = "ORGANIZER:" =>
               view[1][i].value =
                 IF MinistryNameTruthy(event[1].fields.ministry)
                 THEN event[1].fields.ministry[1].fields[1].ministryName
                 ELSE Some("Ministry")

C6_Witness ==
    /\ pc = "done"
    /\ event[1].fields.ministry = Some([fields |-> Some([ministryName |-> None])])
    /\ event[1].fields.contactPhoneNumber = None
    /\ event[1].fields.location = Some("Owerri, Imo State")
    /\ Labels(view[1]) = <<"DATE:", "LOCATION:", "ORGANIZER:">>

\* ----- C8 -------------------------------------------------------------------
\* C8: at most two speaker entries, first speaker before second; an entry is
\* there iff that speaker has a name (a picture alone gives no entry), and
\* with no name at all the section renders nothing.
C8_SpeakersByName ==
    pc = "done" =>
        LET f == event[1].fields
            names == (IF NonEmpty(f.firstSpeaker) THEN <<f.firstSpeaker>> ELSE <<>>)
                       \o (IF NonEmpty(f.secondSpeaker) THEN <<f.secondSpeaker>>
                           ELSE <<>>)
        IN  IF names = <<>> THEN view = None
            ELSE /\ view # None
                 /\ Len(view[1]) <= 2
                 /\ [i \in 1..Len(view[1]) |-> view[1][i].name] = names

C8_Witness ==
    /\ pc = "done"
    /\ event[1].fields.firstSpeaker = None
    /\ event[1].fields.firstSpeakerPicture # None
    /\ event[1].fields.secondSpeaker = Some("Bob")
    /\ view # None
    /\ Len(view[1]) = 1
    /\ view[1][1].name = Some("Bob")

====
